---- MODULE Spec2Model ----
(***************************************************************************)
(* SimpleNVR: the worker registry, the per-camera supervisor loop and the  *)
(* line-oriented control protocol.                                         *)
(*                                                                         *)
(* The model follows the server variant of the program (the file with      *)
(* startCLIServer / handleCLIConn / handleCLICommand), the type            *)
(* declarations (Config, Camera, JSONNullString) and the menu operations   *)
(* of nvrclient.go (editCamera, removeCameraCLI, editConfig,               *)
(* listCamerasString).                                                     *)
(*                                                                         *)
(* Strings that the code takes apart or counts lines of are sequences of   *)
(* tokens: a URL is <<"rtsp", "://", "h1">>, a response is a sequence in   *)
(* which "\n" is the newline byte.                                         *)
(***************************************************************************)
EXTENDS Integers, Sequences, FiniteSets, TLC

\* ------------------------------------------------------------------ bounds
\* worker instances (Worker structs with their goroutine) ever created
MaxWorkers == 2
\* rows the cameras table may hold
MaxCameras == 2

\* units that run operations: two control connections, the operator's menu,
\* the main goroutine and the goroutine of the control server
Callers == {"c1", "c2", "menu", "main", "server"}
Slots == 1 .. MaxWorkers
\* camera ids: 0 is what strconv.Atoi yields for an input that is no number
CamIds == 0 .. MaxCameras
NoWorker == 0
Free == "free"
NL == "\n"

VARIABLES
    cameras,      \* the cameras table: set of rows
    nextId,       \* AUTOINCREMENT sequence of the cameras table
    config,       \* the global Config
    workers,      \* the registry map: camera id -> worker slot (NoWorker: absent)
    workersMu,    \* the registry mutex: Free or the unit holding it
    nWorkers,     \* number of Worker structs created so far
    worker,       \* slot -> Worker struct (camera, args, stopCh, cmdProcess)
    proc,         \* slot -> the external capture process of the worker's cmd
    loop,         \* slot -> position of the supervisor goroutine
    slept,        \* slot -> seconds of the last wait between two attempts
    pc,           \* unit -> position in the operation it executes
    op,           \* unit -> operation being executed
    local,        \* unit -> local variables of the operation
    resp,         \* unit -> response computed by handleCLICommand
    written,      \* unit -> bytes of the last conn.Write, until the next line is read
    printed,      \* unit -> last line the unit printed on stdout
    halted        \* the program has terminated (panic or log.Fatal)

vars == <<cameras, nextId, config, workers, workersMu, nWorkers, worker, proc,
          loop, slept, pc, op, local, resp, written, printed, halted>>

storeVars == <<cameras, nextId>>
workerVars == <<workers, nWorkers, worker, proc, loop, slept>>
unitVars == <<pc, op, local, resp, written, printed>>

\* ------------------------------------------------------------- data types
\* JSONNullString: String and Valid
NullString(s, v) == [String |-> s, Valid |-> v]
ZeroNull == NullString("", FALSE)

\* the zero value of Camera
ZeroCamera ==
    [ID |-> 0, Name |-> "", URL |-> <<>>, OutputDir |-> "",
     Username |-> ZeroNull, Password |-> ZeroNull, Restream |-> ZeroNull]

\* a row of the cameras table; restream_url, username, password hold a string
Row(id, name, url, dir, restream, user, pass) ==
    [id |-> id, name |-> name, url |-> url, output_dir |-> dir,
     restream_url |-> restream, username |-> user, password |-> pass]

DefaultConfig == [SegmentTime |-> 300, RetryInterval |-> 10, MaxBackoff |-> 60]

Max(a, b) == IF a >= b THEN a ELSE b

\* ids of the stored rows, in rowid order (the order SELECT returns them)
RECURSIVE SortedSeq(_)
SortedSeq(S) ==
    IF S = {} THEN <<>>
    ELSE LET m == CHOOSE x \in S : \A y \in S : x <= y
         IN <<m>> \o SortedSeq(S \ {m})

RowOf(id) == CHOOSE r \in cameras : r.id = id
StoredIds == {r.id : r \in cameras}

\* ------------------------------------------------ capture command builder
\* strings.SplitN(s, sep, 2) on a token sequence: cut at the first sep
SplitN2(s, sep) ==
    IF \E i \in 1 .. Len(s) : s[i] = sep
    THEN LET i == CHOOSE k \in 1 .. Len(s) :
                      s[k] = sep /\ \A j \in 1 .. (k - 1) : s[j] # sep
         IN <<SubSeq(s, 1, i - 1), SubSeq(s, i + 1, Len(s))>>
    ELSE <<s>>

\* startWorker embeds the credentials when a username is present
EmbedsCredentials(cam) == cam.Username.Valid /\ cam.Username.String # ""

\* parts[1] of a URL without "://" is out of range: startWorker panics
BuildPanics(cam) == EmbedsCredentials(cam) /\ Len(SplitN2(cam.URL, "://")) < 2

FullURL(cam) ==
    IF EmbedsCredentials(cam)
    THEN LET parts == SplitN2(cam.URL, "://")
         IN parts[1] \o <<"://", cam.Username.String, ":", cam.Password.String, "@">>
                     \o parts[2]
    ELSE cam.URL

\* the argument list of the ffmpeg command
BuildArgs(cam, cfg) ==
    [input |-> FullURL(cam),
     segment_time |-> cfg.SegmentTime,
     output |-> <<cam.OutputDir, "/output_%03d.mp4">>,
     restream |-> IF cam.Restream.Valid THEN <<"-f", "rtsp", cam.Restream.String>>
                  ELSE <<>>]

\* ------------------------------------------------------------ rows.Scan
\* rows.Scan assigns the columns from left to right and stops at the first
\* destination it cannot convert into.  The destinations of id, name, url and
\* output_dir are int and string.  Username, Password and Restream are of
\* type JSONNullString, a defined type that has no Scan method, so the
\* conversion of a column into them fails and leaves them at the zero value.
ScanCol(cam, row, col) ==
    CASE col = "id" -> [cam |-> [cam EXCEPT !.ID = row.id], err |-> FALSE]
      [] col = "name" -> [cam |-> [cam EXCEPT !.Name = row.name], err |-> FALSE]
      [] col = "url" -> [cam |-> [cam EXCEPT !.URL = row.url], err |-> FALSE]
      [] col = "output_dir" ->
             [cam |-> [cam EXCEPT !.OutputDir = row.output_dir], err |-> FALSE]
      [] OTHER -> [cam |-> cam, err |-> TRUE]

RECURSIVE ScanInto(_, _, _)
ScanInto(cam, row, cols) ==
    IF cols = <<>> THEN [cam |-> cam, err |-> FALSE]
    ELSE LET r == ScanCol(cam, row, Head(cols))
         IN IF r.err THEN r ELSE ScanInto(r.cam, row, Tail(cols))

Scan(row, cols) == ScanInto(ZeroCamera, row, cols)

StartServiceCols ==
    <<"id", "name", "url", "output_dir", "username", "password", "restream_url">>
RestartCols == <<"id", "name", "url", "output_dir", "restream_url">>
ListCols == <<"id", "name", "url">>

\* ------------------------------------------------------- worker structs
NoWorkerRec ==
    [camera |-> ZeroCamera, args |-> BuildArgs(ZeroCamera, DefaultConfig),
     Process |-> "nil", stopCh |-> "none"]

\* &Worker{cmd: cmd, camera: cam, stopCh: stopCh}; cmd.Process is nil until
\* the command has been started
NewWorker(cam, cfg) ==
    [camera |-> cam, args |-> BuildArgs(cam, cfg), Process |-> "nil", stopCh |-> "open"]

\* slots of the workers created for camera id
SlotsOf(id) == {w \in Slots : w <= nWorkers /\ worker[w].camera.ID = id}

\* ---------------------------------------------------------- responses
\* a response is a sequence of pieces: text, a formatted number, a newline
Txt(s) == [s |-> s, n |-> 0]
Num(n) == [s |-> "%d", n |-> n]
Newline == [s |-> NL, n |-> 0]

\* number of newline bytes of a byte sequence
RECURSIVE CountNL(_)
CountNL(bytes) ==
    IF bytes = <<>> THEN 0
    ELSE (IF Head(bytes).s = NL THEN 1 ELSE 0) + CountNL(Tail(bytes))

\* listCamerasString: one "ID: .., Name: .., URL: ..\n" per stored camera
RECURSIVE ListLines(_)
ListLines(ids) ==
    IF ids = <<>> THEN <<>>
    ELSE LET cam == Scan(RowOf(Head(ids)), ListCols).cam
         IN <<Txt("ID: "), Num(cam.ID), Txt(", Name: "), Txt(cam.Name),
              Txt(", URL: ")>>
            \o [i \in 1 .. Len(cam.URL) |-> Txt(cam.URL[i])]
            \o <<Newline>>
            \o ListLines(Tail(ids))

listCamerasString == ListLines(SortedSeq(StoredIds))

\* the bytes handleCLIConn writes for a response: response + "\n"
ConnWrite(response) == response \o <<Newline>>

\* ---------------------------------------------------------------- Init
Url(host) == <<"rtsp", "://", host>>
Null == "NULL"

InitRow1 == Row(1, "cam1", Url("h1"), "/d1", "", "", "")
InitRow2 == Row(2, "cam2", Url("h2"), "/d2", Null, "admin", "pw")
InitStores == {{}, {InitRow1}, {InitRow1, InitRow2}}

\* the JSON value null
JNull == "null"

\* the payload of an addCamera line: its kind (a JSON object or not) and,
\* for an object, its members
Payload(kind, name, url, dir, restream, user, pass) ==
    [kind |-> kind, name |-> name, url |-> url, output_dir |-> dir,
     restream |-> restream, username |-> user, password |-> pass]

NoPayload == Payload("none", "", <<>>, "", JNull, JNull, JNull)

\* the local variables of a unit: id, cam, the rows of a query, whether
\* stopWorker found an entry, and the fields argument of addCamera
NoLocal == [id |-> 0, cam |-> ZeroCamera, rows |-> <<>>, ok |-> "-", fields |-> NoPayload]

Init ==
    /\ cameras \in InitStores
    /\ nextId = Cardinality(cameras) + 1
    /\ config = DefaultConfig
    /\ workers = [id \in CamIds |-> NoWorker]
    /\ workersMu = Free
    /\ nWorkers = 0
    /\ worker = [w \in Slots |-> NoWorkerRec]
    /\ proc = [w \in Slots |-> "none"]
    /\ loop = [w \in Slots |-> "none"]
    /\ slept = [w \in Slots |-> 0]
    /\ pc = [c \in Callers |-> "read"]
    /\ op = [c \in Callers |-> ""]
    /\ local = [c \in Callers |-> NoLocal]
    /\ resp = [c \in Callers |-> <<>>]
    /\ written = [c \in Callers |-> <<>>]
    /\ printed = [c \in Callers |-> ""]
    /\ halted = FALSE

\* ------------------------------------------------- supervisor goroutine
\* cmd.Run() at the top of the loop.  A Cmd whose Process is set cannot be
\* started again: Run returns "exec: already started" at once.  Otherwise
\* the process is spawned, and a failed spawn returns its error.
CmdRun(w) ==
    /\ ~halted
    /\ loop[w] = "run"
    /\ IF worker[w].Process # "nil"
       THEN loop' = [loop EXCEPT ![w] = "select"] /\ UNCHANGED proc
       ELSE \/ loop' = [loop EXCEPT ![w] = "started"]
               /\ proc' = [proc EXCEPT ![w] = "live"]
            \/ loop' = [loop EXCEPT ![w] = "select"] /\ UNCHANGED proc
    /\ UNCHANGED <<storeVars, config, workers, workersMu, nWorkers, worker, slept,
                   unitVars, halted>>

\* cmd.Start stores the spawned process in cmd.Process, cmd.Run goes on to Wait
CmdSetProcess(w) ==
    /\ ~halted
    /\ loop[w] = "started"
    /\ worker' = [worker EXCEPT ![w].Process = "set"]
    /\ loop' = [loop EXCEPT ![w] = "wait"]
    /\ UNCHANGED <<storeVars, config, workers, workersMu, nWorkers, proc, slept,
                   unitVars, halted>>

\* the capture process ends by itself, with status zero or not
ProcessExit(w) ==
    /\ proc[w] = "live"
    /\ \E status \in {"exit0", "exit1"} : proc' = [proc EXCEPT ![w] = status]
    /\ UNCHANGED <<storeVars, config, workers, workersMu, nWorkers, worker, loop,
                   slept, unitVars, halted>>

\* cmd.Run() returns when the process has ended: Wait has reaped it
CmdWait(w) ==
    /\ ~halted
    /\ loop[w] = "wait"
    /\ proc[w] \in {"exit0", "exit1", "killed"}
    /\ proc' = [proc EXCEPT ![w] = "reaped"]
    /\ loop' = [loop EXCEPT ![w] = "select"]
    /\ UNCHANGED <<storeVars, config, workers, workersMu, nWorkers, worker, slept,
                   unitVars, halted>>

\* time.Sleep(d) returns at once when d is negative or zero
SleepSeconds(cfg) == Max(0, cfg.RetryInterval)

\* the wait the loop of worker w applies between two attempts:
\* time.Sleep(time.Duration(config.RetryInterval) * time.Second)
RetryWait(w) == SleepSeconds(config)

\* a loop that returns after the first attempt, whatever the stop channel
LoopSelect_Return(w) ==
    /\ ~halted
    /\ loop[w] = "select"
    /\ loop' = [loop EXCEPT ![w] = "done"]
    /\ UNCHANGED <<storeVars, config, workers, workersMu, nWorkers, worker, proc, slept,
                   unitVars, halted>>

\* select { case <-stopCh: return; default: time.Sleep(RetryInterval) }
LoopSelect(w) ==
    /\ ~halted
    /\ loop[w] = "select"
    /\ IF worker[w].stopCh = "closed"
       THEN loop' = [loop EXCEPT ![w] = "done"] /\ UNCHANGED slept
       ELSE /\ loop' = [loop EXCEPT ![w] = "sleep"]
            /\ slept' = [slept EXCEPT ![w] = RetryWait(w)]
    /\ UNCHANGED <<storeVars, config, workers, workersMu, nWorkers, worker, proc,
                   unitVars, halted>>

\* the sleep is over: next iteration of the loop
LoopWake(w) ==
    /\ ~halted
    /\ loop[w] = "sleep"
    /\ loop' = [loop EXCEPT ![w] = "run"]
    /\ slept' = [slept EXCEPT ![w] = 0]
    /\ UNCHANGED <<storeVars, config, workers, workersMu, nWorkers, worker, proc,
                   unitVars, halted>>

Supervisor(w) ==
    \/ CmdRun(w)
    \/ CmdSetProcess(w)
    \/ CmdWait(w)
    \/ LoopSelect(w)
    \/ LoopWake(w)

\* ---------------------------------------------------------- startWorker
\* where a unit continues when startWorker returns
AfterStartWorker(c) == IF op[c] = "start" THEN "ss_loop" ELSE "return"

\* _, exists := workers[cam.ID]
Exists_Never(id) == FALSE

Exists(id) == workers[id] # NoWorker

\* a Worker struct is created unless the camera is registered or the build panics
CreatesWorker(cam) == ~Exists(cam.ID) /\ ~BuildPanics(cam)

\* workersMu.Lock() of startWorker
StartWorkerLock(c) ==
    /\ ~halted
    /\ pc[c] = "sw_lock"
    /\ workersMu = Free
    /\ CreatesWorker(local[c].cam) => nWorkers < MaxWorkers
    /\ workersMu' = c
    /\ pc' = [pc EXCEPT ![c] = "sw_body"]
    /\ UNCHANGED <<storeVars, config, workerVars, op, local, resp, printed, halted>>
    /\ UNCHANGED written

\* the registration of startWorker without the go statement
Register_NoGoroutine(cam, w) ==
    /\ worker' = [worker EXCEPT ![w] = NewWorker(cam, config)]
    /\ workers' = [workers EXCEPT ![cam.ID] = w]
    /\ loop' = loop
    /\ nWorkers' = w

\* the registration of startWorker: workers[cam.ID] = &Worker{...}; go func()
Register(cam, w) ==
    /\ worker' = [worker EXCEPT ![w] = NewWorker(cam, config)]
    /\ workers' = [workers EXCEPT ![cam.ID] = w]
    /\ loop' = [loop EXCEPT ![w] = "run"]
    /\ nWorkers' = w

\* the body of startWorker, up to the deferred Unlock
StartWorkerBody(c) ==
    /\ ~halted
    /\ pc[c] = "sw_body"
    /\ LET cam == local[c].cam
       IN IF Exists(cam.ID)
          THEN /\ printed' = [printed EXCEPT ![c] = "already running"]
               /\ UNCHANGED <<workers, nWorkers, worker, loop, halted>>
          ELSE IF BuildPanics(cam)
          THEN /\ halted' = TRUE
               /\ UNCHANGED <<workers, nWorkers, worker, loop, printed>>
          ELSE /\ Register(cam, nWorkers + 1)
               /\ UNCHANGED <<printed, halted>>
    /\ workersMu' = Free
    /\ pc' = [pc EXCEPT ![c] = AfterStartWorker(c)]
    /\ UNCHANGED <<storeVars, config, proc, slept, op, local, resp>>
    /\ UNCHANGED written

\* ----------------------------------------------------------- stopWorker
\* where a unit continues when stopWorker returns
AfterStopWorker(c) ==
    CASE op[c] = "stop" -> "st_range"
      [] op[c] = "removeCameraCLI" -> "rc_delete"
      [] op[c] = "removeCamera" -> "rm_delete"
      [] OTHER -> "rw_query"

\* stopWorker entered without taking the mutex
StopWorkerLock_NoLock(c) ==
    /\ ~halted
    /\ pc[c] = "kw_lock"
    /\ pc' = [pc EXCEPT ![c] = "kw_body"]
    /\ UNCHANGED <<storeVars, config, workersMu, workerVars, op, local, resp, printed,
                   halted>>
    /\ UNCHANGED written

\* workersMu.Lock() of stopWorker: the mutex is not reentrant
StopWorkerLock(c) ==
    /\ ~halted
    /\ pc[c] = "kw_lock"
    /\ workersMu = Free
    /\ workersMu' = c
    /\ pc' = [pc EXCEPT ![c] = "kw_body"]
    /\ UNCHANGED <<storeVars, config, workerVars, op, local, resp, printed, halted>>
    /\ UNCHANGED written

\* delete(workers, id)
Unregister_Keep(id) == workers

Unregister(id) == [workers EXCEPT ![id] = NoWorker]

\* a kill that ends every running capture process
Kill_All(w) == [v \in Slots |-> IF proc[v] = "live" THEN "killed" ELSE proc[v]]

\* w.cmd.Process.Kill(): ends the process when it is still running
Kill(w) == IF proc[w] = "live" THEN [proc EXCEPT ![w] = "killed"] ELSE proc

\* the body of stopWorker, up to the deferred Unlock
StopWorkerBody(c) ==
    /\ ~halted
    /\ pc[c] = "kw_body"
    /\ LET id == local[c].id
           w == workers[id]
       IN IF w # NoWorker
          THEN /\ worker' = [worker EXCEPT ![w].stopCh = "closed"]
               /\ halted' = (worker[w].stopCh = "closed")
               /\ proc' = IF worker[w].Process # "nil" THEN Kill(w) ELSE proc
               /\ workers' = Unregister(id)
               /\ printed' = [printed EXCEPT ![c] = "Stopped worker"]
               /\ local' = [local EXCEPT ![c].ok = "found"]
          ELSE /\ local' = [local EXCEPT ![c].ok = "absent"]
               /\ UNCHANGED <<worker, proc, workers, printed, halted>>
    /\ workersMu' = Free
    /\ pc' = [pc EXCEPT ![c] = AfterStopWorker(c)]
    /\ UNCHANGED <<storeVars, config, nWorkers, loop, slept, op, resp>>
    /\ UNCHANGED written

\* --------------------------------------------------------- startService
\* the `start` command: db.Query selects the stored cameras
CmdStart(c) ==
    /\ ~halted
    /\ pc[c] = "read"
    /\ op' = [op EXCEPT ![c] = "start"]
    /\ local' = [local EXCEPT ![c].rows = SortedSeq(StoredIds)]
    /\ pc' = [pc EXCEPT ![c] = "ss_loop"]
    /\ UNCHANGED <<storeVars, config, workersMu, workerVars, resp, printed, halted>>
    /\ written' = [written EXCEPT ![c] = <<>>]

\* for rows.Next() { rows.Scan(...); startWorker(cam) }; "Service started."
\* The error of rows.Scan is dropped.  A row deleted since the query is skipped.
StartServiceLoop(c) ==
    /\ ~halted
    /\ pc[c] = "ss_loop"
    /\ LET rows == SelectSeq(local[c].rows, LAMBDA id : id \in StoredIds)
       IN IF rows = <<>>
          THEN /\ printed' = [printed EXCEPT ![c] = "Service started."]
               /\ resp' = [resp EXCEPT ![c] = <<Txt("Service started.")>>]
               /\ local' = [local EXCEPT ![c].rows = <<>>]
               /\ pc' = [pc EXCEPT ![c] = "write"]
          ELSE /\ local' = [local EXCEPT
                      ![c].cam = Scan(RowOf(Head(rows)), StartServiceCols).cam,
                      ![c].rows = Tail(rows)]
               /\ pc' = [pc EXCEPT ![c] = "sw_lock"]
               /\ UNCHANGED <<resp, printed>>
    /\ UNCHANGED <<storeVars, config, workersMu, workerVars, op, halted>>
    /\ UNCHANGED written

\* ---------------------------------------------------------- stopService
\* the `stop` command
CmdStop(c) ==
    /\ ~halted
    /\ pc[c] = "read"
    /\ op' = [op EXCEPT ![c] = "stop"]
    /\ pc' = [pc EXCEPT ![c] = "st_lock"]
    /\ UNCHANGED <<storeVars, config, workersMu, workerVars, local, resp, printed,
                   halted>>
    /\ written' = [written EXCEPT ![c] = <<>>]

\* workersMu.Lock() of stopService
StopServiceLock(c) ==
    /\ ~halted
    /\ pc[c] = "st_lock"
    /\ workersMu = Free
    /\ workersMu' = c
    /\ pc' = [pc EXCEPT ![c] = "st_range"]
    /\ UNCHANGED <<storeVars, config, workerVars, op, local, resp, printed, halted>>
    /\ UNCHANGED written

Registered == {id \in CamIds : workers[id] # NoWorker}

\* for id := range workers { stopWorker(id) }, with the mutex held;
\* after the loop "Service stopped." and the deferred Unlock
StopServiceRange(c) ==
    /\ ~halted
    /\ pc[c] = "st_range"
    /\ IF Registered = {}
       THEN /\ printed' = [printed EXCEPT ![c] = "Service stopped."]
            /\ resp' = [resp EXCEPT ![c] = <<Txt("Service stopped.")>>]
            /\ workersMu' = Free
            /\ pc' = [pc EXCEPT ![c] = "write"]
            /\ UNCHANGED local
       ELSE /\ \E id \in Registered : local' = [local EXCEPT ![c].id = id]
            /\ pc' = [pc EXCEPT ![c] = "kw_lock"]
            /\ UNCHANGED <<resp, printed, workersMu>>
    /\ UNCHANGED <<storeVars, config, workerVars, op, halted>>
    /\ UNCHANGED written

\* -------------------------------------------------------- restartWorker
\* after stopWorker(id): the row of id is read again and the worker started
\* when row.Scan returns no error
RestartWorkerQuery(c) ==
    /\ ~halted
    /\ pc[c] = "rw_query"
    /\ LET id == local[c].id
       IN IF id \in StoredIds /\ ~Scan(RowOf(id), RestartCols).err
          THEN /\ local' = [local EXCEPT ![c].cam = Scan(RowOf(id), RestartCols).cam]
               /\ pc' = [pc EXCEPT ![c] = "sw_lock"]
          ELSE /\ pc' = [pc EXCEPT ![c] = "return"]
               /\ UNCHANGED local
    /\ UNCHANGED <<storeVars, config, workersMu, workerVars, op, resp, printed, halted>>
    /\ UNCHANGED written

\* ------------------------------------------------------------ addCamera
\* payloads of the addCamera command: well-formed JSON objects (new cameras,
\* and cameras that repeat the name, the url or the output directory of a
\* stored one), text that is no JSON, and the empty payload
Payloads ==
    { Payload("json", "camA", Url("hA"), "/dA", JNull, JNull, JNull),
      Payload("json", "camB", Url("hB"), "/dB", "rtsp://r", "admin", "pw"),
      Payload("json", "cam1", Url("hC"), "/dC", "rtsp://c", JNull, JNull),
      Payload("json", "camD", Url("h1"), "/dD", "rtsp://d", JNull, JNull),
      Payload("json", "camE", Url("hE"), "/d1", "rtsp://e", JNull, JNull),
      Payload("malformed", "", <<>>, "", JNull, JNull, JNull),
      Payload("empty", "", <<>>, "", JNull, JNull, JNull) }

\* JSONNullString.UnmarshalJSON: null gives the invalid empty string
UnmarshalNull(v) == IF v = JNull THEN ZeroNull ELSE NullString(v, TRUE)

\* a decoder that takes any text for an object without members
Unmarshal_Lenient(p) ==
    [cam |-> [ID |-> 0, Name |-> p.name, URL |-> p.url, OutputDir |-> p.output_dir,
              Username |-> UnmarshalNull(p.username),
              Password |-> UnmarshalNull(p.password),
              Restream |-> UnmarshalNull(p.restream)],
     err |-> FALSE]

\* json.Unmarshal([]byte(fields), &cam)
Unmarshal(p) ==
    IF p.kind # "json" THEN [cam |-> ZeroCamera, err |-> TRUE]
    ELSE [cam |-> [ID |-> 0, Name |-> p.name, URL |-> p.url, OutputDir |-> p.output_dir,
                   Username |-> UnmarshalNull(p.username),
                   Password |-> UnmarshalNull(p.password),
                   Restream |-> UnmarshalNull(p.restream)],
          err |-> FALSE]

\* a table without UNIQUE constraints
UniqueViolation_None(row, rows) == FALSE

\* the UNIQUE constraints of the cameras table: name, url, output_dir and
\* restream_url (a NULL restream_url never conflicts)
UniqueViolation(row, rows) ==
    \E r \in rows :
        /\ r.id # row.id
        /\ \/ r.name = row.name
           \/ r.url = row.url
           \/ r.output_dir = row.output_dir
           \/ (row.restream_url # Null /\ r.restream_url = row.restream_url)

\* the row addCamera inserts: the String of each nullable field
InsertedRow(cam, id) ==
    Row(id, cam.Name, cam.URL, cam.OutputDir,
        cam.Restream.String, cam.Username.String, cam.Password.String)

Failure(msg) == <<Txt("{\"status\": \"failure\", \"message\": \""), Txt(msg),
                  Txt("\", \"id\": null}")>>
Success(id) == <<Txt("{\"status\": \"success\", \"message\": \"Camera created successfully\", \"id\": \""),
                 Num(id), Txt("\"}")>>

\* the `addCamera|payload` command
CmdAddCamera(c) ==
    /\ ~halted
    /\ pc[c] = "read"
    /\ \E p \in Payloads :
         LET u == Unmarshal(p)
             row == InsertedRow(u.cam, nextId)
         IN /\ IF u.err
               THEN /\ resp' = [resp EXCEPT ![c] = Failure("Invalid JSON")]
                    /\ UNCHANGED storeVars
               ELSE IF UniqueViolation(row, cameras)
               THEN /\ resp' = [resp EXCEPT ![c] = Failure("Error adding camera")]
                    /\ UNCHANGED storeVars
               ELSE /\ nextId <= MaxCameras
                    /\ cameras' = cameras \cup {row}
                    /\ nextId' = nextId + 1
                    /\ resp' = [resp EXCEPT ![c] = Success(nextId)]
            /\ local' = [local EXCEPT ![c].fields = p, ![c].cam = u.cam]
    /\ op' = [op EXCEPT ![c] = "addCamera"]
    /\ pc' = [pc EXCEPT ![c] = "write"]
    /\ UNCHANGED <<config, workersMu, workerVars, printed, halted>>
    /\ written' = [written EXCEPT ![c] = <<>>]

\* an `addCamera` line without "|": parts has one element and parts[1]
\* is out of range; the panic of the handler goroutine ends the program
CmdAddCameraNoPayload(c) ==
    /\ ~halted
    /\ pc[c] = "read"
    /\ Len(SplitN2(<<"addCamera">>, "|")) < 2
    /\ op' = [op EXCEPT ![c] = "addCamera"]
    /\ halted' = TRUE
    /\ UNCHANGED <<storeVars, config, workersMu, workerVars, pc, local, resp, printed>>
    /\ written' = [written EXCEPT ![c] = <<>>]

\* ------------------------------------------------ list, config, unknown
\* the `list` command
CmdList(c) ==
    /\ ~halted
    /\ pc[c] = "read"
    /\ op' = [op EXCEPT ![c] = "list"]
    /\ resp' = [resp EXCEPT ![c] = listCamerasString]
    /\ pc' = [pc EXCEPT ![c] = "write"]
    /\ UNCHANGED <<storeVars, config, workersMu, workerVars, local, printed, halted>>
    /\ written' = [written EXCEPT ![c] = <<>>]

\* the `config` command: fmt.Sprintf("Current config: %+v", config)
CmdConfig(c) ==
    /\ ~halted
    /\ pc[c] = "read"
    /\ op' = [op EXCEPT ![c] = "config"]
    /\ resp' = [resp EXCEPT ![c] =
                  <<Txt("Current config: {SegmentTime:"), Num(config.SegmentTime),
                    Txt(" RetryInterval:"), Num(config.RetryInterval),
                    Txt(" MaxBackoff:"), Num(config.MaxBackoff), Txt("}")>>]
    /\ pc' = [pc EXCEPT ![c] = "write"]
    /\ UNCHANGED <<storeVars, config, workersMu, workerVars, local, printed, halted>>
    /\ written' = [written EXCEPT ![c] = <<>>]

\* any other line
CmdUnknown(c) ==
    /\ ~halted
    /\ pc[c] = "read"
    /\ op' = [op EXCEPT ![c] = "unknown"]
    /\ resp' = [resp EXCEPT ![c] = <<Txt("Unknown command")>>]
    /\ pc' = [pc EXCEPT ![c] = "write"]
    /\ UNCHANGED <<storeVars, config, workersMu, workerVars, local, printed, halted>>
    /\ written' = [written EXCEPT ![c] = <<>>]

\* conn.Write([]byte(response + "\n")), then the next line is read
Write(c) ==
    /\ ~halted
    /\ pc[c] = "write"
    /\ pc' = [pc EXCEPT ![c] = "read"]
    /\ op' = [op EXCEPT ![c] = ""]
    /\ local' = [local EXCEPT ![c] = NoLocal]
    /\ resp' = [resp EXCEPT ![c] = <<>>]
    /\ printed' = [printed EXCEPT ![c] = ""]
    /\ UNCHANGED <<storeVars, config, workersMu, workerVars, halted>>
    /\ written' = [written EXCEPT ![c] = ConnWrite(resp[c])]

\* ----------------------------------------------------------- editCamera
\* strconv.Atoi of a line of input; the error is dropped, so 0 for no number
Atoi(str) ==
    CASE str = "1" -> 1
      [] str = "2" -> 2
      [] str = "3" -> 3
      [] str = "5" -> 5
      [] str = "-5" -> 0 - 5
      [] str = "100" -> 100
      [] str = "600" -> 600
      [] OTHER -> 0

\* what the operator types for the camera id
IdInputs == {"", "1", "2"}

\* new name, URL and output directory typed into editCamera; blank skips
EditInputs ==
    { [name |-> "", url |-> <<>>, output_dir |-> ""],
      [name |-> "", url |-> Url("hX"), output_dir |-> "/dX"] }

\* UPDATE cameras SET ... WHERE id=?
Updated(row, in) ==
    [row EXCEPT !.name = IF in.name # "" THEN in.name ELSE @,
                !.url = IF in.url # <<>> THEN in.url ELSE @,
                !.output_dir = IF in.output_dir # "" THEN in.output_dir ELSE @]

\* editCamera up to the call of restartWorker; a failed UPDATE is log.Fatal
CmdEditCamera(c) ==
    /\ ~halted
    /\ pc[c] = "read"
    /\ op' = [op EXCEPT ![c] = "editCamera"]
    /\ \E idStr \in IdInputs, in \in EditInputs :
         LET id == Atoi(idStr)
         IN IF in.name = "" /\ in.url = <<>> /\ in.output_dir = ""
            THEN /\ printed' = [printed EXCEPT ![c] = "No changes."]
                 /\ pc' = [pc EXCEPT ![c] = "return"]
                 /\ UNCHANGED <<storeVars, local, halted>>
            ELSE IF id \notin StoredIds
            THEN /\ printed' = [printed EXCEPT ![c] = "Camera updated."]
                 /\ local' = [local EXCEPT ![c].id = id]
                 /\ pc' = [pc EXCEPT ![c] = "kw_lock"]
                 /\ UNCHANGED <<storeVars, halted>>
            ELSE IF UniqueViolation(Updated(RowOf(id), in), cameras)
            THEN /\ halted' = TRUE
                 /\ UNCHANGED <<storeVars, local, printed, pc>>
            ELSE /\ cameras' = (cameras \ {RowOf(id)}) \cup {Updated(RowOf(id), in)}
                 /\ printed' = [printed EXCEPT ![c] = "Camera updated."]
                 /\ local' = [local EXCEPT ![c].id = id]
                 /\ pc' = [pc EXCEPT ![c] = "kw_lock"]
                 /\ UNCHANGED <<nextId, halted>>
    /\ UNCHANGED <<config, workersMu, workerVars, resp>>
    /\ written' = [written EXCEPT ![c] = <<>>]

\* ------------------------------------------------------ removeCameraCLI
\* removeCameraCLI: stopWorker(id) first
CmdRemoveCameraCLI(c) ==
    /\ ~halted
    /\ pc[c] = "read"
    /\ op' = [op EXCEPT ![c] = "removeCameraCLI"]
    /\ \E idStr \in IdInputs : local' = [local EXCEPT ![c].id = Atoi(idStr)]
    /\ pc' = [pc EXCEPT ![c] = "kw_lock"]
    /\ UNCHANGED <<storeVars, config, workersMu, workerVars, resp, printed, halted>>
    /\ written' = [written EXCEPT ![c] = <<>>]

\* DELETE FROM cameras WHERE id=?
RemoveCameraDelete(c) ==
    /\ ~halted
    /\ pc[c] = "rc_delete"
    /\ cameras' = {r \in cameras : r.id # local[c].id}
    /\ printed' = [printed EXCEPT ![c] = "Camera removed."]
    /\ pc' = [pc EXCEPT ![c] = "return"]
    /\ UNCHANGED <<nextId, config, workersMu, workerVars, op, local, resp, written,
                   halted>>

\* --------------------------------------------------------- removeCamera
\* removeCamera(id) of the server: called with the id of a camera
CmdRemoveCamera(c) ==
    /\ ~halted
    /\ pc[c] = "read"
    /\ op' = [op EXCEPT ![c] = "removeCamera"]
    /\ \E idStr \in IdInputs : local' = [local EXCEPT ![c].id = Atoi(idStr)]
    /\ pc' = [pc EXCEPT ![c] = "rm_lock"]
    /\ UNCHANGED <<storeVars, config, workersMu, workerVars, resp, printed, halted>>
    /\ written' = [written EXCEPT ![c] = <<>>]

\* workersMu.Lock() of removeCamera
RemoveCameraLock(c) ==
    /\ ~halted
    /\ pc[c] = "rm_lock"
    /\ workersMu = Free
    /\ workersMu' = c
    /\ pc' = [pc EXCEPT ![c] = "rm_body"]
    /\ UNCHANGED <<storeVars, config, workerVars, op, local, resp, printed, halted>>
    /\ UNCHANGED written

\* if _, ok := workers[id]; ok { stopWorker(id) }, with the mutex held
RemoveCameraBody(c) ==
    /\ ~halted
    /\ pc[c] = "rm_body"
    /\ pc' = [pc EXCEPT ![c] = IF Exists(local[c].id) THEN "kw_lock" ELSE "rm_delete"]
    /\ UNCHANGED <<storeVars, config, workersMu, workerVars, op, local, resp, printed,
                   halted>>
    /\ UNCHANGED written

Removed == <<Txt("{\"status\": \"success\", \"message\": \"Camera removed successfully\", \"id\": null}")>>

\* DELETE FROM cameras WHERE id=?, the success response and the deferred Unlock
RemoveCameraRecord(c) ==
    /\ ~halted
    /\ pc[c] = "rm_delete"
    /\ cameras' = {r \in cameras : r.id # local[c].id}
    /\ resp' = [resp EXCEPT ![c] = Removed]
    /\ workersMu' = Free
    /\ pc' = [pc EXCEPT ![c] = "return"]
    /\ UNCHANGED <<nextId, config, workerVars, op, local, written, printed, halted>>

\* ----------------------------------------------------------- editConfig
\* what the operator types for the three values; blank skips
SegmentInputs == {"", "600"}
RetryInputs == {"", "100", "-5"}
BackoffInputs == {"", "5"}

\* editConfig: every non-blank input replaces its field, unchecked
EditedConfig(cfg, segStr, retryStr, backStr) ==
    [SegmentTime |-> IF segStr # "" THEN Atoi(segStr) ELSE cfg.SegmentTime,
     RetryInterval |-> IF retryStr # "" THEN Atoi(retryStr) ELSE cfg.RetryInterval,
     MaxBackoff |-> IF backStr # "" THEN Atoi(backStr) ELSE cfg.MaxBackoff]

CmdEditConfig(c) ==
    /\ ~halted
    /\ pc[c] = "read"
    /\ op' = [op EXCEPT ![c] = "editConfig"]
    /\ \E segStr \in SegmentInputs, retryStr \in RetryInputs, backStr \in BackoffInputs :
         config' = EditedConfig(config, segStr, retryStr, backStr)
    /\ printed' = [printed EXCEPT ![c] = "Config updated."]
    /\ pc' = [pc EXCEPT ![c] = "return"]
    /\ UNCHANGED <<storeVars, workersMu, workerVars, local, resp, halted>>
    /\ written' = [written EXCEPT ![c] = <<>>]

\* a menu operation returns to the menu
Return(c) ==
    /\ ~halted
    /\ pc[c] = "return"
    /\ pc' = [pc EXCEPT ![c] = "read"]
    /\ op' = [op EXCEPT ![c] = ""]
    /\ local' = [local EXCEPT ![c] = NoLocal]
    /\ printed' = [printed EXCEPT ![c] = ""]
    /\ UNCHANGED <<storeVars, config, workersMu, workerVars, resp, written, halted>>

\* ------------------------------------------------- main, startCLIServer
MainUnit == "main"
Server == "server"
Conns == {"c1", "c2"}

\* the state in which main is entered: nothing loaded, no connection open
ServerInit ==
    /\ cameras \in InitStores
    /\ nextId = Cardinality(cameras) + 1
    /\ config = [SegmentTime |-> 0, RetryInterval |-> 0, MaxBackoff |-> 0]
    /\ workers = [id \in CamIds |-> NoWorker]
    /\ workersMu = Free
    /\ nWorkers = 0
    /\ worker = [w \in Slots |-> NoWorkerRec]
    /\ proc = [w \in Slots |-> "none"]
    /\ loop = [w \in Slots |-> "none"]
    /\ slept = [w \in Slots |-> 0]
    /\ pc = [c \in Callers |->
               IF c = MainUnit THEN "initDB"
               ELSE IF c = Server THEN "none"
               ELSE IF c \in Conns THEN "closed" ELSE "read"]
    /\ op = [c \in Callers |-> ""]
    /\ local = [c \in Callers |-> NoLocal]
    /\ resp = [c \in Callers |-> <<>>]
    /\ written = [c \in Callers |-> <<>>]
    /\ printed = [c \in Callers |-> ""]
    /\ halted = FALSE

\* initDB(): a failure to open the database or create the tables is log.Fatal
MainInitDB ==
    /\ ~halted
    /\ pc[MainUnit] = "initDB"
    /\ \/ pc' = [pc EXCEPT ![MainUnit] = "loadConfig"] /\ UNCHANGED halted
       \/ halted' = TRUE /\ UNCHANGED pc
    /\ UNCHANGED <<storeVars, config, workersMu, workerVars, op, local, resp, written,
                   printed>>

\* loadConfig(): no stored config gives the default one
MainLoadConfig ==
    /\ ~halted
    /\ pc[MainUnit] = "loadConfig"
    /\ config' = DefaultConfig
    /\ pc' = [pc EXCEPT ![MainUnit] = "go"]
    /\ UNCHANGED <<storeVars, workersMu, workerVars, op, local, resp, written, printed,
                   halted>>

\* go startCLIServer()
MainGo ==
    /\ ~halted
    /\ pc[MainUnit] = "go"
    /\ pc' = [pc EXCEPT ![MainUnit] = "end", ![Server] = "listen"]
    /\ UNCHANGED <<storeVars, config, workersMu, workerVars, op, local, resp, written,
                   printed, halted>>

\* main returns: the program exits and every goroutine ends with it
MainReturn ==
    /\ ~halted
    /\ pc[MainUnit] = "end"
    /\ halted' = TRUE
    /\ UNCHANGED <<storeVars, config, workersMu, workerVars, unitVars>>

\* net.Listen("tcp", "127.0.0.1:9000"): an error is log.Fatalf
ServerListen ==
    /\ ~halted
    /\ pc[Server] = "listen"
    /\ \/ pc' = [pc EXCEPT ![Server] = "accept"] /\ UNCHANGED halted
       \/ halted' = TRUE /\ UNCHANGED pc
    /\ UNCHANGED <<storeVars, config, workersMu, workerVars, op, local, resp, written,
                   printed>>

\* a client connects to the listening server
Dial(c) ==
    /\ ~halted
    /\ pc[Server] = "accept"
    /\ pc[c] = "closed"
    /\ pc' = [pc EXCEPT ![c] = "dialed"]
    /\ UNCHANGED <<storeVars, config, workersMu, workerVars, op, local, resp, written,
                   printed, halted>>

\* for { conn, err := ln.Accept(); if err != nil { continue };
\*       go handleCLIConn(conn) }
ServerAccept ==
    /\ ~halted
    /\ pc[Server] = "accept"
    /\ \/ \E c \in Conns : pc[c] = "dialed" /\ pc' = [pc EXCEPT ![c] = "read"]
       \/ UNCHANGED pc
    /\ UNCHANGED <<storeVars, config, workersMu, workerVars, op, local, resp, written,
                   printed, halted>>

\* reader.ReadString returns an error (the client has closed): the handler
\* returns and the deferred conn.Close() runs
ConnClose(c) ==
    /\ ~halted
    /\ pc[c] = "read"
    /\ pc' = [pc EXCEPT ![c] = "closed"]
    /\ UNCHANGED <<storeVars, config, workersMu, workerVars, op, local, resp, written,
                   printed, halted>>

\* ------------------------------------------------------- specifications
\* startService and startWorker
StartOps(c) ==
    \/ CmdStart(c)
    \/ StartServiceLoop(c)
    \/ StartWorkerLock(c)
    \/ StartWorkerBody(c)

\* stopService
StopServiceOps(c) ==
    \/ CmdStop(c)
    \/ StopServiceLock(c)
    \/ StopServiceRange(c)

\* stopWorker
StopWorkerOps(c) ==
    \/ StopWorkerLock(c)
    \/ StopWorkerBody(c)

StopOps(c) == StopServiceOps(c) \/ StopWorkerOps(c)

\* removeCameraCLI
RemoveOps(c) ==
    \/ CmdRemoveCameraCLI(c)
    \/ RemoveCameraDelete(c)

\* removeCamera of the server
RemoveCameraOps(c) ==
    \/ CmdRemoveCamera(c)
    \/ RemoveCameraLock(c)
    \/ RemoveCameraBody(c)
    \/ RemoveCameraRecord(c)

\* editCamera and restartWorker
EditOps(c) ==
    \/ CmdEditCamera(c)
    \/ RestartWorkerQuery(c)

\* the supervisor goroutines and the capture processes
Workers ==
    \/ \E w \in Slots : Supervisor(w)
    \/ \E w \in Slots : ProcessExit(w)

\* the unit that issues the operations one after the other
Main == "c1"

\* Spec: the worker registry and the supervisors, driven by start, stop
\* and editCamera
Next ==
    \/ StartOps(Main)
    \/ StopOps(Main)
    \/ EditOps(Main)
    \/ Write(Main)
    \/ Return(Main)
    \/ Workers

Spec == Init /\ [][Next]_vars

\* ConfigSpec: workers started and the global config edited
ConfigNext ==
    \/ StartOps(Main)
    \/ CmdEditConfig(Main)
    \/ Write(Main)
    \/ Return(Main)
    \/ Workers

ConfigSpec == Init /\ [][ConfigNext]_vars

\* ProtoSpec: a control connection issuing the six kinds of command line,
\* next to removeCameraCLI
ProtoNext ==
    \/ CmdList(Main)
    \/ CmdConfig(Main)
    \/ CmdAddCamera(Main)
    \/ CmdAddCameraNoPayload(Main)
    \/ CmdUnknown(Main)
    \/ StartOps(Main)
    \/ StopOps(Main)
    \/ RemoveOps(Main)
    \/ Write(Main)
    \/ Return(Main)
    \/ Workers

ProtoSpec == Init /\ [][ProtoNext]_vars

\* The scheduling the Go runtime gives: a goroutine that can take a step
\* eventually takes it.  Nothing forces a new command to arrive or a capture
\* process to end.
UnitProgress(c) ==
    \/ StartServiceLoop(c)
    \/ StartWorkerLock(c)
    \/ StartWorkerBody(c)
    \/ StopServiceLock(c)
    \/ StopServiceRange(c)
    \/ StopWorkerLock(c)
    \/ StopWorkerBody(c)
    \/ RemoveCameraDelete(c)
    \/ Write(c)
    \/ Return(c)

Fairness ==
    /\ WF_vars(UnitProgress(Main))
    /\ \A w \in Slots : WF_vars(Supervisor(w))

\* FairSpec: workers started by start and stopped by removeCameraCLI
FairNext ==
    \/ StartOps(Main)
    \/ RemoveOps(Main)
    \/ StopWorkerOps(Main)
    \/ Write(Main)
    \/ Return(Main)
    \/ Workers

FairSpec == Init /\ [][FairNext]_vars /\ Fairness

\* FairStopSpec: FairSpec with the stop command
FairStopNext ==
    \/ FairNext
    \/ StopServiceOps(Main)

FairStopSpec == Init /\ [][FairStopNext]_vars /\ Fairness

\* FairRemoveSpec: FairSpec with removeCamera of the server
RemoveProgress(c) ==
    \/ UnitProgress(c)
    \/ RemoveCameraLock(c)
    \/ RemoveCameraBody(c)
    \/ RemoveCameraRecord(c)

FairRemoveNext ==
    \/ FairNext
    \/ RemoveCameraOps(Main)

FairRemoveSpec ==
    /\ Init
    /\ [][FairRemoveNext]_vars
    /\ WF_vars(RemoveProgress(Main))
    /\ \A w \in Slots : WF_vars(Supervisor(w))

\* ServerSpec: the program from the entry of main, with clients that
\* connect, send list, config and unknown lines, and close
ServerNext ==
    \/ MainInitDB
    \/ MainLoadConfig
    \/ MainGo
    \/ MainReturn
    \/ ServerListen
    \/ ServerAccept
    \/ \E c \in Conns : Dial(c)
    \/ \E c \in Conns : ConnClose(c)
    \/ \E c \in Conns : CmdList(c) \/ CmdConfig(c) \/ CmdUnknown(c) \/ Write(c)

\* the goroutines of main and of the server take the steps they can take
ServerFairness ==
    /\ WF_vars(MainInitDB \/ MainLoadConfig \/ MainGo \/ MainReturn)
    /\ WF_vars(ServerListen)
    /\ \A c \in Conns :
          WF_vars(ServerAccept /\ pc[c] = "dialed" /\ pc'[c] = "read")

ServerSpec == ServerInit /\ [][ServerNext]_vars /\ ServerFairness

\* StoreSpec: a control connection adding and listing cameras
StoreNext ==
    \/ CmdAddCamera(Main)
    \/ CmdAddCameraNoPayload(Main)
    \/ CmdList(Main)
    \/ Write(Main)

StoreSpec == Init /\ [][StoreNext]_vars

\* positions at which a unit reads or writes the registry map: the body of
\* startWorker, the body of stopWorker, the range of stopService
MapAccess == {"sw_body", "kw_body", "st_range"}

\* ConnSpec: two control connections, each served by its own handleCLIConn
\* goroutine, one issuing `stop` lines and the other `start` lines, next to
\* the operator's menu removing cameras
Stopper == "c1"
Starter == "c2"
Menu == "menu"

ConnNext ==
    \/ StopOps(Stopper)
    \/ StartOps(Starter)
    \/ \E c \in {Stopper, Starter} : Write(c)
    \/ RemoveOps(Menu)
    \/ StopWorkerOps(Menu)
    \/ Return(Menu)
    \/ Workers

\* sync.Mutex hands the lock to a goroutine that keeps waiting for it
\* (starvation mode), so a handler that can go on again and again does go on
ConnFairness ==
    /\ \A c \in Callers : SF_vars(UnitProgress(c))
    /\ \A w \in Slots : WF_vars(Supervisor(w))

ConnSpec == Init /\ [][ConnNext]_vars /\ ConnFairness

\* RegistrySpec: the operations on the registry under every interleaving of
\* two connections that both issue `start` and `stop` lines and the menu
\* removing cameras.  The supervisor goroutines access neither the map nor
\* the mutex and are left out.
RegistryNext ==
    \/ \E c \in {Stopper, Starter} : StartOps(c) \/ StopOps(c) \/ Write(c)
    \/ RemoveOps(Menu)
    \/ StopWorkerOps(Menu)
    \/ Return(Menu)

RegistrySpec == Init /\ [][RegistryNext]_vars

\* StopPathsSpec: every path to stopWorker under every interleaving: one
\* connection issuing `stop` lines (stopService), a unit that starts the
\* service and edits cameras (restartWorker), and a unit that removes cameras
\* (removeCameraCLI, removeCamera).  The supervisor goroutines never close a
\* stop channel and are left out.
StopPathsNext ==
    \/ StopOps(Stopper)
    \/ StartOps(Starter)
    \/ EditOps(Starter)
    \/ StopWorkerOps(Starter)
    \/ Write(Stopper)
    \/ Write(Starter)
    \/ Return(Starter)
    \/ RemoveOps(Menu)
    \/ RemoveCameraOps(Menu)
    \/ StopWorkerOps(Menu)
    \/ Return(Menu)

StopPathsSpec == Init /\ [][StopPathsNext]_vars

\* ================================================================ claims
\* C1: once stopWorker(id) has returned (the stop channel of the worker is
\* closed and its entry removed), the stopped worker has no running capture
\* process, now or later.
C1_NoProcessAfterStop ==
    \A w \in Slots : worker[w].stopCh = "closed" => proc[w] # "live"

\* C2: a `stop` command eventually returns "Service stopped." with the
\* registry empty, whatever number of workers is active.
C2_StopCompletes ==
    (pc[Main] = "st_lock")
        ~> (/\ pc[Main] = "read"
            /\ written[Main] = ConnWrite(<<Txt("Service stopped.")>>)
            /\ Registered = {})

\* a supervisor loop that can still launch a process: it is at, or on its way
\* to, cmd.Run() with a command that was never started
CanLaunch(w) ==
    /\ worker[w].Process = "nil"
    /\ \/ loop[w] \in {"run", "sleep"}
       \/ loop[w] = "select" /\ worker[w].stopCh = "open"

\* C3: for every camera id there is at most one supervisor loop that can
\* still launch a process and at most one live capture process.
C3_AtMostOneWorker ==
    \A id \in CamIds :
        /\ Cardinality({w \in SlotsOf(id) : proc[w] = "live"}) <= 1
        /\ Cardinality({w \in SlotsOf(id) : CanLaunch(w)}) <= 1

\* C4: stopWorker(id) leaves no entry for id, and a stopWorker(id) that finds
\* no entry changes nothing of the registry, the workers, the processes, the
\* store and the config: a second call in a row is a no-op.
C4_StopIdempotent ==
    [][\A c \in Callers :
         (pc[c] = "kw_body" /\ pc'[c] # "kw_body") =>
            /\ workers'[local[c].id] = NoWorker
            /\ workers[local[c].id] = NoWorker =>
                   UNCHANGED <<workerVars, storeVars, config, halted>>]_vars

\* a second stopWorker(id) in a row has returned: restartWorker found no
\* entry for a camera whose worker an earlier stopWorker had stopped
C4_Witness ==
    /\ pc[Main] = "rw_query"
    /\ local[Main].ok = "absent"
    /\ \E w \in SlotsOf(local[Main].id) : worker[w].stopCh = "closed"
    /\ workers[local[Main].id] = NoWorker

\* C5: startWorker(cam) for a registered camera id leaves the registry, every
\* Worker struct, every supervisor loop and every process as they are and
\* prints "already running".
C5_StartExistingUntouched ==
    [][\A c \in Callers :
         (pc[c] = "sw_body" /\ pc'[c] # "sw_body"
            /\ workers[local[c].cam.ID] # NoWorker) =>
            /\ UNCHANGED workerVars
            /\ printed'[c] = "already running"]_vars

\* startWorker has returned for a camera that was registered
C5_Witness ==
    /\ pc[Main] = "ss_loop"
    /\ printed[Main] = "already running"
    /\ workers[local[Main].cam.ID] # NoWorker
    /\ worker[workers[local[Main].cam.ID]].camera.ID = local[Main].cam.ID

\* C6: when startService has completed, the registry has exactly one entry
\* for each stored camera id, each with a supervisor loop of its own.
C6_StartRegistersAll ==
    (pc[Main] = "write" /\ op[Main] = "start") =>
        /\ Registered = StoredIds
        /\ \A id \in StoredIds :
              /\ worker[workers[id]].camera.ID = id
              /\ loop[workers[id]] \notin {"none", "done"}

\* startService has completed for a store of two cameras
C6_Witness ==
    /\ pc[Main] = "write"
    /\ op[Main] = "start"
    /\ Cardinality(StoredIds) = 2
    /\ Cardinality({workers[id] : id \in StoredIds} \ {NoWorker}) = 2

\* C7: a supervisor loop whose stop channel is closed never calls cmd.Run().
C7_NoRunAfterStop ==
    [][\A w \in Slots :
         worker[w].stopCh = "closed" => ~(loop[w] = "run" /\ loop'[w] # "run")]_vars

\* C8: after an unexpected exit of the capture process with no stop pending,
\* a new live process of that worker eventually exists (unless the worker is
\* stopped in the meantime).
C8_RestartAfterExit ==
    \A w \in Slots :
        (proc[w] = "exit1" /\ worker[w].stopCh = "open")
            ~> (proc[w] = "live" \/ worker[w].stopCh = "closed")

\* C9: every wait between two attempts is at least 0, at least the retry
\* interval and at most the maximum backoff of the config.
C9_WaitBounded ==
    [][\A w \in Slots :
         (loop[w] = "select" /\ loop'[w] = "sleep") =>
            /\ slept'[w] >= 0
            /\ slept'[w] >= config.RetryInterval
            /\ slept'[w] <= config.MaxBackoff]_vars

\* C10: what a connection writes for a command line is exactly one
\* newline-terminated line.
C10_OneResponseLine ==
    \A c \in Callers :
        written[c] # <<>> =>
            /\ CountNL(written[c]) = 1
            /\ written[c][Len(written[c])] = Newline

\* C11: every command line a connection has received eventually gets its
\* response written on that connection (as long as worker instances remain
\* for a start to create).
C11_EveryCommandAnswered ==
    \A c \in {Stopper, Starter} :
        (op[c] # "") ~> (written[c] # <<>> \/ nWorkers = MaxWorkers)

\* C12: an addCamera line, whatever its payload (malformed, empty, or no
\* "|payload" part at all), gets a failure response and leaves the program
\* running.
C12_AddCameraNeverFatal ==
    [][\A c \in Callers :
         (pc[c] = "read" /\ op'[c] = "addCamera"
            /\ local'[c].fields.kind # "json") =>
            /\ ~halted'
            /\ pc'[c] = "write"
            /\ resp'[c] = Failure("Invalid JSON")]_vars

\* the launch of worker w has failed: cmd.Run() returned without a process
SpawnFailed(w) ==
    /\ loop[w] \in {"select", "sleep"}
    /\ worker[w].Process = "nil"
    /\ proc[w] = "none"

\* C13: a worker whose capture process failed to spawn is not in the registry.
C13_FailedSpawnNotRegistered ==
    \A id \in CamIds : workers[id] # NoWorker => ~SpawnFailed(workers[id])

\* the payload p repeats the name, the url or the output directory of a
\* camera of rows
Duplicates(p, rows) ==
    \E r \in rows : r.name = p.name \/ r.url = p.url \/ r.output_dir = p.output_dir

\* C14: addCamera with a well-formed payload whose name, url and output_dir
\* differ from every stored camera's answers success with the new id, and the
\* store (what list shows) holds that id with the payload's name and url.
C14_AddUniqueSucceeds ==
    [][\A c \in Callers :
         (pc[c] = "read" /\ pc'[c] = "write" /\ op'[c] = "addCamera"
            /\ local'[c].fields.kind = "json"
            /\ ~Duplicates(local'[c].fields, cameras)) =>
            /\ resp'[c] = Success(nextId)
            /\ \E r \in cameras' :
                  /\ r.id = nextId
                  /\ r.name = local'[c].fields.name
                  /\ r.url = local'[c].fields.url]_vars

\* C15: addCamera with a payload that is no well-formed JSON answers failure
\* and leaves the store as it was.
C15_MalformedLeavesStore ==
    [][\A c \in Callers :
         (pc[c] = "read" /\ pc'[c] = "write" /\ op'[c] = "addCamera"
            /\ local'[c].fields.kind \in {"malformed", "empty"}) =>
            /\ resp'[c] = Failure("Invalid JSON")
            /\ UNCHANGED storeVars]_vars

\* addCamera has answered a malformed payload while cameras are stored
C15_Witness ==
    /\ pc[Main] = "write"
    /\ op[Main] = "addCamera"
    /\ local[Main].fields.kind = "malformed"
    /\ resp[Main] = Failure("Invalid JSON")
    /\ cameras # {}

\* C16: addCamera with a payload that repeats the name, the url or the
\* output directory of a stored camera answers failure and leaves the store
\* as it was.
C16_DuplicateLeavesStore ==
    [][\A c \in Callers :
         (pc[c] = "read" /\ pc'[c] = "write" /\ op'[c] = "addCamera"
            /\ local'[c].fields.kind = "json"
            /\ Duplicates(local'[c].fields, cameras)) =>
            /\ resp'[c] = Failure("Error adding camera")
            /\ UNCHANGED storeVars]_vars

\* addCamera has answered a payload that repeats only the url of a stored
\* camera
C16_Witness ==
    /\ pc[Main] = "write"
    /\ op[Main] = "addCamera"
    /\ local[Main].fields.kind = "json"
    /\ resp[Main] = Failure("Error adding camera")
    /\ \E r \in cameras :
          /\ r.url = local[Main].fields.url
          /\ r.name # local[Main].fields.name
          /\ r.output_dir # local[Main].fields.output_dir

\* C17: a unit that reads or writes the registry map holds the registry
\* mutex, the map changes only in a step of the unit holding the mutex, and
\* no entry of the map has a closed stop channel.
C17_RegistryUnderLock ==
    [][/\ \A c \in Callers : pc'[c] \in MapAccess => workersMu' = c
       /\ workers' # workers => (workersMu # Free /\ pc[workersMu] \in MapAccess)
       /\ \A id \in CamIds :
             workers'[id] # NoWorker => worker'[workers'[id]].stopCh = "open"]_vars

\* a connection is in startWorker with the mutex while the other connection
\* and the menu wait for it, with a worker registered
C17_Witness ==
    /\ pc[Starter] = "sw_body"
    /\ workersMu = Starter
    /\ pc[Stopper] = "st_lock"
    /\ pc[Menu] = "kw_lock"
    /\ Registered # {}

\* a worker whose supervisor loop is running
Running(w) == loop[w] \notin {"none", "done"}

\* C18: no step changes the segment duration or the wait between attempts
\* of a worker that is running.
C18_ConfigNotRetroactive ==
    [][\A w \in Slots :
         Running(w) =>
            /\ worker'[w].args.segment_time = worker[w].args.segment_time
            /\ RetryWait(w)' = RetryWait(w)]_vars

\* C19: an unexpected exit or a failed spawn of one worker's process leaves
\* the program running and every other worker, loop, process and registry
\* entry as it was; stopWorker(id) changes only the entry and the worker
\* registered for id.
C19_OthersUntouched ==
    [][/\ \A w \in Slots :
             (\/ proc[w] = "live" /\ proc'[w] \in {"exit0", "exit1"}
              \/ loop[w] = "run" /\ loop'[w] = "select") =>
                /\ halted' = halted
                /\ workers' = workers
                /\ \A v \in Slots \ {w} :
                      worker'[v] = worker[v] /\ proc'[v] = proc[v] /\ loop'[v] = loop[v]
       /\ \A c \in Callers :
             (pc[c] = "kw_body" /\ pc'[c] # "kw_body") =>
                /\ halted' = halted
                /\ \A id \in CamIds \ {local[c].id} : workers'[id] = workers[id]
                /\ \A v \in Slots \ {workers[local[c].id]} :
                      worker'[v] = worker[v] /\ proc'[v] = proc[v] /\ loop'[v] = loop[v]]_vars

\* stopWorker has stopped and killed one camera's worker while the process of
\* another camera's worker runs on
C19_Witness ==
    /\ ~halted
    /\ pc[Main] = "rw_query"
    /\ local[Main].ok = "found"
    /\ \E w, v \in Slots :
          /\ worker[w].camera.ID = local[Main].id
          /\ worker[w].stopCh = "closed"
          /\ proc[w] = "killed"
          /\ worker[v].camera.ID # local[Main].id
          /\ worker[v].stopCh = "open"
          /\ proc[v] = "live"

\* C20: once the stop channel of a worker is closed, its supervisor loop
\* eventually exits and stays exited.
C20_LoopExitsAfterStop ==
    \A w \in Slots : (worker[w].stopCh = "closed") ~> [](loop[w] = "done")

\* C21: removeCamera(id) eventually returns, with no entry for id in the
\* registry and no record of id in the store.
C21_RemoveCameraCompletes ==
    (pc[Main] = "rm_lock")
        ~> (/\ pc[Main] = "return"
            /\ op[Main] = "removeCamera"
            /\ workers[local[Main].id] = NoWorker
            /\ local[Main].id \notin StoredIds)

\* a nullable column read into a sql.NullString: NULL gives the invalid value
StoredNull(v) == IF v = Null THEN ZeroNull ELSE NullString(v, TRUE)

\* C22: when restartWorker(id) has returned for a stored camera whose worker
\* it stopped, the registry holds a running worker for id whose camera has
\* the url, output directory, username, password and restream target of the
\* camera's record; when it found no worker, the registry holds none.
C22_RestartUsesRecord ==
    (pc[Main] = "return" /\ op[Main] = "editCamera") =>
        LET id == local[Main].id
        IN /\ (local[Main].ok = "found" /\ id \in StoredIds) =>
                 /\ workers[id] # NoWorker
                 /\ worker[workers[id]].stopCh = "open"
                 /\ worker[workers[id]].camera.URL = RowOf(id).url
                 /\ worker[workers[id]].camera.OutputDir = RowOf(id).output_dir
                 /\ worker[workers[id]].camera.Username = StoredNull(RowOf(id).username)
                 /\ worker[workers[id]].camera.Password = StoredNull(RowOf(id).password)
                 /\ worker[workers[id]].camera.Restream = StoredNull(RowOf(id).restream_url)
           /\ local[Main].ok = "absent" => workers[id] = NoWorker

\* C23: every connection made to the listening server is eventually accepted
\* and handed to its handler.
C23_ServerKeepsAccepting ==
    \A c \in Conns : (pc[c] = "dialed") ~> (pc[c] = "read")

\* C24: every registry entry has an open stop channel and a supervisor loop
\* that has not exited; a stop channel is closed only in the step, taken with
\* the mutex held, that removes the worker's entry; a loop exits only when
\* its stop channel is closed.
C24_EntriesLive ==
    [][/\ \A id \in CamIds :
             workers'[id] # NoWorker =>
                /\ worker'[workers'[id]].stopCh = "open"
                /\ loop'[workers'[id]] \notin {"none", "done"}
       /\ \A w \in Slots :
             (worker[w].stopCh = "open" /\ worker'[w].stopCh = "closed") =>
                /\ workersMu # Free
                /\ workers[worker[w].camera.ID] = w
                /\ workers'[worker[w].camera.ID] = NoWorker
       /\ \A w \in Slots :
             (loop[w] # "done" /\ loop'[w] = "done") => worker[w].stopCh = "closed"]_vars

\* a registered worker waits between two attempts while the loop of a
\* stopped worker has exited
C24_Witness ==
    /\ \E id \in CamIds :
          /\ workers[id] # NoWorker
          /\ loop[workers[id]] = "sleep"
          /\ worker[workers[id]].stopCh = "open"
    /\ \E w \in Slots : loop[w] = "done" /\ worker[w].stopCh = "closed"

\* C25: stopWorker closes a stop channel only when it is open: no return of
\* stopWorker closes a closed channel, which would end the program with a
\* panic, and a closed channel stays closed.
C25_ClosedOnce ==
    [][/\ \A c \in Callers :
             (pc[c] = "kw_body" /\ pc'[c] # "kw_body") =>
                /\ halted' = halted
                /\ workers[local[c].id] # NoWorker =>
                      worker[workers[local[c].id]].stopCh = "open"
       /\ \A w \in Slots :
             worker[w].stopCh = "closed" => worker'[w].stopCh = "closed"]_vars

\* the menu enters stopWorker(id) for the camera whose worker restartWorker
\* has just stopped
C25_Witness ==
    /\ pc[Starter] = "rw_query"
    /\ local[Starter].ok = "found"
    /\ pc[Menu] = "kw_body"
    /\ local[Menu].id = local[Starter].id
    /\ \E w \in SlotsOf(local[Menu].id) : worker[w].stopCh = "closed"

\* C26: after an exit of the capture process with status zero and no stop
\* pending, the loop waits and the capture command runs again: a live process
\* of that worker eventually exists (unless the worker is stopped in the
\* meantime).
C26_RerunAfterCleanExit ==
    \A w \in Slots :
        (proc[w] = "exit0" /\ worker[w].stopCh = "open")
            ~> (proc[w] = "live" \/ worker[w].stopCh = "closed")

====
